---- MODULE Spec2Model ----
(***************************************************************************)
(* Text preprocessing pipeline of the d2l notebooks: the Vocab class and   *)
(* count_corpus of text-preprocessing.ipynb.  A Vocab is built from a      *)
(* token list (flat, or a list of lines), a minimum frequency and a list   *)
(* of reserved tokens; afterwards it is queried with len, vocab[...] and   *)
(* to_tokens.                                                              *)
(*                                                                         *)
(* Python lists are 0-based, TLA+ sequences 1-based: the token of Python   *)
(* index i is idx_to_token[i + 1].  A dict is a function whose DOMAIN is   *)
(* its key set; a Counter is the sequence of its (token, count) items in   *)
(* insertion order, which is the order Counter.items() yields.             *)
(***************************************************************************)
EXTENDS Integers, Sequences, FiniteSets, TLC

\* ---------------------------------------------------------------- bounds
MaxTokens == 3      \* tokens in a 1D list handed to Vocab
MaxNested == 2      \* tokens in a 2D list handed to Vocab
MaxReserved == 2    \* length of reserved_tokens
MaxMinFreq == 2     \* largest min_freq tried
MaxQuery == 1       \* length of a list handed to vocab[...] or to_tokens
MaxText == 5        \* characters in the time machine file
MaxBatch == 2       \* batch_size of a tensor
MaxSteps == 2       \* number of queries or key-value pairs of a tensor
MaxHiddens == 4     \* num_hiddens of a tensor, and the largest num_heads

\* ------------------------------------------------------------ input sets
UNK == "<unk>"

\* Tokens that occur in corpora.  The unknown token's own string is among
\* them: nothing stops a text from containing it.
CorpusTokens == {UNK, "a", "b"}

\* Tokens a caller reserves: the unknown string, and a token that some
\* corpora contain and others do not.
ReservedChoices == {UNK, "a"}

\* Tokens looked up: "z" occurs in no corpus and in no reserved list.
QueryTokens == CorpusTokens \cup ReservedChoices \cup {"z"}

SeqsUpTo(S, n) == UNION {[1..k -> S] : k \in 0..n}

Range(s) == {s[i] : i \in DOMAIN s}

\* ------------------------------------------------------------ count_corpus
\* The elements of a token list: a token (a string), or a line (a list of
\* tokens).  isinstance(e, list) is e.list.
Tok(t) == [list |-> FALSE, tok |-> t, items |-> <<>>]
Line(l) == [list |-> TRUE, tok |-> "", items |-> l]

\* [token for line in tokens for token in line]
RECURSIVE Flatten(_)
Flatten(lines) ==
    IF lines = <<>> THEN <<>> ELSE Head(lines).items \o Flatten(Tail(lines))

\* collections.Counter(tokens): one item per distinct token, in order of
\* first occurrence, with the number of occurrences.
RECURSIVE Counter(_)
Counter(flat) ==
    IF flat = <<>> THEN <<>>
    ELSE LET init == Counter(SubSeq(flat, 1, Len(flat) - 1))
             t == flat[Len(flat)]
         IN IF \E i \in DOMAIN init : init[i].token = t
            THEN [i \in DOMAIN init |->
                    IF init[i].token = t
                    THEN [token |-> t, freq |-> init[i].freq + 1]
                    ELSE init[i]]
            ELSE Append(init, [token |-> t, freq |-> 1])

\* count_corpus taking an empty first line for no list: "tokens[0] and
\* isinstance(tokens[0], list)".
count_corpus_nonempty_first(toks) ==
    IF Len(toks) = 0 \/ (toks[1].list /\ toks[1].items # <<>>)
    THEN Counter(Flatten(toks))
    ELSE Counter([i \in DOMAIN toks |-> toks[i].tok])

\* if len(tokens) == 0 or isinstance(tokens[0], list): flatten first
count_corpus(toks) ==
    IF Len(toks) = 0 \/ toks[1].list
    THEN Counter(Flatten(toks))
    ELSE Counter([i \in DOMAIN toks |-> toks[i].tok])

\* ------------------------------------------------------------------ sorted
\* sorted(items, key=lambda x: x[1], reverse=True): a stable sort, so items
\* of equal count keep their order.  Insert x behind every item whose count
\* is at least x's.
\* InsertDesc as an unstable sort would have it: x goes in front of the
\* items of equal count.
InsertDescBeforeTies(s, x) ==
    LET k == Cardinality({i \in DOMAIN s : s[i].freq > x.freq})
    IN SubSeq(s, 1, k) \o <<x>> \o SubSeq(s, k + 1, Len(s))

InsertDesc(s, x) ==
    LET k == Cardinality({i \in DOMAIN s : s[i].freq >= x.freq})
    IN SubSeq(s, 1, k) \o <<x>> \o SubSeq(s, k + 1, Len(s))

RECURSIVE SortedDesc(_)
SortedDesc(items) ==
    IF items = <<>> THEN <<>>
    ELSE InsertDesc(SortedDesc(SubSeq(items, 1, Len(items) - 1)),
                    items[Len(items)])

\* ---------------------------------------------------------- Vocab.__init__
\* for token in uniq_tokens:
\*     self.idx_to_token.append(token)
\*     self.token_to_idx[token] = len(self.idx_to_token) - 1
\* A token met again overwrites its dict entry with the later index.
\* AssignIndices with the index taken after the append without the "- 1".
RECURSIVE AssignIndicesOneBased(_)
AssignIndicesOneBased(uniq_tokens) ==
    IF uniq_tokens = <<>>
    THEN [idx_to_token |-> <<>>, token_to_idx |-> <<>>]
    ELSE LET prev == AssignIndicesOneBased(
                         SubSeq(uniq_tokens, 1, Len(uniq_tokens) - 1))
             token == uniq_tokens[Len(uniq_tokens)]
             appended == Append(prev.idx_to_token, token)
         IN [idx_to_token |-> appended,
             token_to_idx |->
                 [t \in DOMAIN prev.token_to_idx \cup {token} |->
                     IF t = token THEN Len(appended)
                     ELSE prev.token_to_idx[t]]]

RECURSIVE AssignIndices(_)
AssignIndices(uniq_tokens) ==
    IF uniq_tokens = <<>>
    THEN [idx_to_token |-> <<>>, token_to_idx |-> <<>>]
    ELSE LET prev == AssignIndices(SubSeq(uniq_tokens, 1, Len(uniq_tokens) - 1))
             token == uniq_tokens[Len(uniq_tokens)]
             appended == Append(prev.idx_to_token, token)
         IN [idx_to_token |-> appended,
             token_to_idx |->
                 [t \in DOMAIN prev.token_to_idx \cup {token} |->
                     IF t = token THEN Len(appended) - 1
                     ELSE prev.token_to_idx[t]]]

\* uniq_tokens = ['<unk>'] + reserved_tokens
\* uniq_tokens += [token for token, freq in self.token_freqs
\*                 if freq >= min_freq and token not in uniq_tokens]
\* The comprehension is evaluated before the += takes place, so the
\* membership test sees the unknown token and the reserved ones only.
\* UniqTokens with the corpus tokens placed in front of the reserved ones.
UniqTokensCorpusFirst(token_freqs, min_freq_, reserved) ==
    LET base == <<UNK>> \o reserved
        kept == SelectSeq(token_freqs,
                    LAMBDA item : item.freq >= min_freq_
                                  /\ item.token \notin Range(base))
    IN <<UNK>> \o [i \in DOMAIN kept |-> kept[i].token] \o reserved

\* UniqTokens without the test against min_freq.
UniqTokensNoMinFreq(token_freqs, min_freq_, reserved) ==
    LET base == <<UNK>> \o reserved
        kept == SelectSeq(token_freqs,
                    LAMBDA item : item.token \notin Range(base))
    IN base \o [i \in DOMAIN kept |-> kept[i].token]

\* UniqTokens with the comparison against min_freq turned round.
UniqTokensBelow(token_freqs, min_freq_, reserved) ==
    LET base == <<UNK>> \o reserved
        kept == SelectSeq(token_freqs,
                    LAMBDA item : item.freq <= min_freq_
                                  /\ item.token \notin Range(base))
    IN base \o [i \in DOMAIN kept |-> kept[i].token]

UniqTokens(token_freqs, min_freq_, reserved) ==
    LET base == <<UNK>> \o reserved
        kept == SelectSeq(token_freqs,
                    LAMBDA item : item.freq >= min_freq_
                                  /\ item.token \notin Range(base))
    IN base \o [i \in DOMAIN kept |-> kept[i].token]

VocabInit(toks, min_freq_, reserved) ==
    LET counter == count_corpus(toks)
        token_freqs == SortedDesc(counter)
        maps == AssignIndices(UniqTokens(token_freqs, min_freq_, reserved))
    IN [token_freqs |-> token_freqs,
        unk |-> 0,
        idx_to_token |-> maps.idx_to_token,
        token_to_idx |-> maps.token_to_idx]

\* ------------------------------------------------------------ Vocab methods
\* __len__
VocabLen(self) == Len(self.idx_to_token)

\* What a call gives: a value, or the exception it raises.
Returns(v) == [ok |-> TRUE, val |-> v, err |-> ""]
Raises(e) == [ok |-> FALSE, val |-> <<>>, err |-> e]

\* dict.get(key, default): the entry, or the default for a missing key;
\* it raises nothing.
\* dict[key] in place of dict.get: a missing key raises KeyError.
DictIndex(dict, key, default) ==
    IF key \in DOMAIN dict THEN Returns(dict[key]) ELSE Raises("KeyError")

DictGet(dict, key, default) ==
    Returns(IF key \in DOMAIN dict THEN dict[key] ELSE default)

\* __getitem__ on something that is no list or tuple:
\* self.token_to_idx.get(tokens, self.unk)
GetItem(self, token) == DictGet(self.token_to_idx, token, self.unk)

\* __getitem__ on a list: [self.__getitem__(token) for token in tokens]
GetItems(self, toks) ==
    IF \A k \in DOMAIN toks : GetItem(self, toks[k]).ok
    THEN Returns([k \in DOMAIN toks |-> GetItem(self, toks[k]).val])
    ELSE Raises(GetItem(self, toks[CHOOSE k \in DOMAIN toks :
                    /\ ~GetItem(self, toks[k]).ok
                    /\ \A j \in 1..(k - 1) : GetItem(self, toks[j]).ok]).err)

\* list.__getitem__ of Python: a negative index counts from the end, an
\* index outside [-len, len) raises IndexError.
ListIndex(list, index) ==
    IF 0 <= index /\ index < Len(list)
    THEN Returns(list[index + 1])
    ELSE IF -Len(list) <= index /\ index < 0
    THEN Returns(list[Len(list) + index + 1])
    ELSE Raises("IndexError")

\* to_tokens on a single index: self.idx_to_token[indices]
ToToken(self, index) == ListIndex(self.idx_to_token, index)

\* to_tokens on a list: [self.idx_to_token[index] for index in indices];
\* the first failing element raises and no list is returned.
ToTokens(self, indices) ==
    IF \A k \in DOMAIN indices : ToToken(self, indices[k]).ok
    THEN Returns([k \in DOMAIN indices |-> ToToken(self, indices[k]).val])
    ELSE Raises("IndexError")

\* ------------------------------------------------------------------- state
VARIABLES
    tokens,           \* the token list handed to Vocab
    min_freq,         \* the min_freq handed to Vocab
    reserved_tokens,  \* the reserved_tokens handed to Vocab
    pc,               \* "new" before Vocab(...) has run, "built" after
    vocab,            \* the Vocab object
    vocab2,           \* a second Vocab of the same tokens and reserved_tokens
    ret,              \* the last call: what was asked and returned
    text,             \* the content of the time machine file
    lines,            \* the text lines read_time_machine returned
    X,                \* the tensor handed to transpose_qkv
    num_heads         \* the num_heads handed to the transpose functions

vars == <<tokens, min_freq, reserved_tokens, pc, vocab, vocab2, ret,
          text, lines, X, num_heads>>

\* What the Vocab class does not touch.
others == <<text, lines, X, num_heads>>

NoTensor == [shape |-> <<>>, data |-> <<>>]

\* 1D lists: at most MaxTokens tokens
FlatInputs ==
    {[i \in DOMAIN s |-> Tok(s[i])] : s \in SeqsUpTo(CorpusTokens, MaxTokens)}

\* 2D lists: one or two lines holding at most MaxNested tokens together
NestedInputs ==
    {<<Line(l)>> : l \in SeqsUpTo(CorpusTokens, MaxNested)}
    \cup
    {<<Line(SubSeq(l, 1, k)), Line(SubSeq(l, k + 1, Len(l)))>> :
        <<l, k>> \in {<<l, k>> \in SeqsUpTo(CorpusTokens, MaxNested) \X (0..MaxNested) :
                        k <= Len(l)}}

NoVocab == [token_freqs |-> <<>>, unk |-> 0, idx_to_token |-> <<>>,
            token_to_idx |-> <<>>]
NoVocab2 == [min_freq |-> 0, vocab |-> NoVocab, built |-> FALSE]
NoRet == [op |-> "none", arg |-> <<>>, ok |-> TRUE, val |-> <<>>, err |-> ""]

Init ==
    /\ tokens \in FlatInputs \cup NestedInputs
    /\ min_freq \in 0..MaxMinFreq
    /\ reserved_tokens \in SeqsUpTo(ReservedChoices, MaxReserved)
    /\ pc = "new"
    /\ vocab = NoVocab
    /\ vocab2 = NoVocab2
    /\ ret = NoRet
    /\ text = <<>>
    /\ lines = <<>>
    /\ X = NoTensor
    /\ num_heads = 1

\* vocab = Vocab(tokens, min_freq, reserved_tokens)
Construct ==
    /\ pc = "new"
    /\ vocab' = VocabInit(tokens, min_freq, reserved_tokens)
    /\ pc' = "built"
    /\ UNCHANGED <<tokens, min_freq, reserved_tokens, vocab2, ret, others>>

\* Each behaviour builds the vocabulary and then makes one call on it.

\* Vocab(tokens, m, reserved_tokens): the same corpus under another min_freq
ConstructOther(m) ==
    /\ pc = "built"
    /\ vocab2' = [min_freq |-> m,
                  vocab |-> VocabInit(tokens, m, reserved_tokens),
                  built |-> TRUE]
    /\ pc' = "called"
    /\ UNCHANGED <<tokens, min_freq, reserved_tokens, vocab, ret, others>>

\* len(vocab)
CallLen ==
    /\ pc = "built"
    /\ ret' = [op |-> "len", arg |-> <<>>, ok |-> TRUE, val |-> VocabLen(vocab),
               err |-> ""]
    /\ pc' = "called"
    /\ UNCHANGED <<tokens, min_freq, reserved_tokens, vocab, vocab2, others>>

\* vocab[token] as a dict that stores the default on a miss would do it
\* (dict.setdefault): a token asked for and not found gets the entry unk.
CallGetItemStoring(token) ==
    /\ pc = "built"
    /\ LET r == GetItem(vocab, token)
       IN ret' = [op |-> "getitem", arg |-> token, ok |-> r.ok, val |-> r.val,
                  err |-> r.err]
    /\ vocab' = [vocab EXCEPT !.token_to_idx =
                    [t \in DOMAIN vocab.token_to_idx \cup {token} |->
                        IF t \in DOMAIN vocab.token_to_idx
                        THEN vocab.token_to_idx[t] ELSE vocab.unk]]
    /\ pc' = "called"
    /\ UNCHANGED <<tokens, min_freq, reserved_tokens, vocab2, others>>

\* vocab[token]
CallGetItem(token) ==
    /\ pc = "built"
    /\ LET r == GetItem(vocab, token)
       IN ret' = [op |-> "getitem", arg |-> token, ok |-> r.ok, val |-> r.val,
                  err |-> r.err]
    /\ pc' = "called"
    /\ UNCHANGED <<tokens, min_freq, reserved_tokens, vocab, vocab2, others>>

\* vocab[[t1, ..., tn]]
CallGetItems(toks) ==
    /\ pc = "built"
    /\ LET r == GetItems(vocab, toks)
       IN ret' = [op |-> "getitems", arg |-> toks, ok |-> r.ok, val |-> r.val,
                  err |-> r.err]
    /\ pc' = "called"
    /\ UNCHANGED <<tokens, min_freq, reserved_tokens, vocab, vocab2, others>>

\* vocab.to_tokens(index)
CallToToken(index) ==
    /\ pc = "built"
    /\ LET r == ToToken(vocab, index)
       IN ret' = [op |-> "to_token", arg |-> index, ok |-> r.ok, val |-> r.val,
                  err |-> r.err]
    /\ pc' = "called"
    /\ UNCHANGED <<tokens, min_freq, reserved_tokens, vocab, vocab2, others>>

\* vocab.to_tokens([i1, ..., in])
CallToTokens(indices) ==
    /\ pc = "built"
    /\ LET r == ToTokens(vocab, indices)
       IN ret' = [op |-> "to_tokens", arg |-> indices, ok |-> r.ok, val |-> r.val,
                  err |-> r.err]
    /\ pc' = "called"
    /\ UNCHANGED <<tokens, min_freq, reserved_tokens, vocab, vocab2, others>>

\* Indices asked one at a time: every valid one, every negative one that
\* Python counts from the end, and one beyond each of the two ends.
Indices(self) == -(VocabLen(self) + 1) .. VocabLen(self)

\* Indices asked in lists: the first and the last valid one, the last one
\* written as -1, and the nearest invalid one on either side.
EdgeIndices(self) ==
    {-(VocabLen(self) + 1), -1, 0, VocabLen(self) - 1, VocabLen(self)}

Next ==
    \/ Construct
    \/ \E m \in 0..MaxMinFreq : ConstructOther(m)
    \/ CallLen
    \/ \E token \in QueryTokens : CallGetItem(token)
    \/ \E toks \in SeqsUpTo(QueryTokens, MaxQuery) : CallGetItems(toks)
    \/ \E index \in Indices(vocab) : CallToToken(index)
    \/ \E indices \in SeqsUpTo(EdgeIndices(vocab), MaxQuery) : CallToTokens(indices)

Spec == Init /\ [][Next]_vars

\* ======================================================== the properties
\* The corpus as one token list, its line boundaries dropped.
Corpus ==
    IF tokens # <<>> /\ tokens[1].list
    THEN Flatten(tokens)
    ELSE [i \in DOMAIN tokens |-> tokens[i].tok]

\* How often t occurs in the corpus, and where it occurs first.
Freq(t) == Cardinality({i \in DOMAIN Corpus : Corpus[i] = t})
FirstPos(t) ==
    CHOOSE i \in DOMAIN Corpus :
        Corpus[i] = t /\ \A j \in 1..(i - 1) : Corpus[j] # t

Built == pc # "new"
Size == VocabLen(vocab)
Reserved == Range(reserved_tokens)

\* t holds some index of the vocabulary.
Assigned(t) == \E i \in DOMAIN vocab.idx_to_token : vocab.idx_to_token[i] = t

\* The Python indices at which t stands in idx_to_token.
Places(t) == {i \in 0..(Size - 1) : vocab.idx_to_token[i + 1] = t}

\* vocab[t]
Index(t) == GetItem(vocab, t).val

\* C1: in every constructed Vocab, whatever the reserved list (it may
\* repeat a token or hold '<unk>'), token_to_idx and idx_to_token are
\* inverse to each other: no token stands at two indices, and
\* token_to_idx[idx_to_token[i]] = i for every i in [0, len(vocab)).
C1_MutuallyInverse ==
    Built =>
        /\ \A i, j \in 0..(Size - 1) :
             vocab.idx_to_token[i + 1] = vocab.idx_to_token[j + 1] => i = j
        /\ \A i \in 0..(Size - 1) :
             vocab.token_to_idx[vocab.idx_to_token[i + 1]] = i

\* C2: in every constructed Vocab index 0 is the unknown token both ways:
\* to_tokens(0) returns '<unk>' and vocab['<unk>'] returns 0.
C2_UnknownAtZero ==
    Built =>
        /\ ToToken(vocab, 0) = Returns(UNK)
        /\ GetItem(vocab, UNK) = Returns(0)

\* C3: the reserved tokens r1..rn stand at the indices 1..n in the order
\* supplied (to_tokens(k) = rk), and a token that comes from the corpus
\* only (it is neither reserved nor the unknown token) stands at no index
\* up to n.
C3_ReservedFirst ==
    Built =>
        /\ \A k \in 1..Len(reserved_tokens) :
             ToToken(vocab, k) = Returns(reserved_tokens[k])
        /\ \A t \in Range(Corpus) \ (Reserved \cup {UNK}) :
             \A i \in Places(t) : i > Len(reserved_tokens)

\* C3, its case: reserved tokens were supplied, one of them occurs in the
\* corpus as well, and a token of the corpus alone got an index.
C3_Witness ==
    /\ Built
    /\ Len(reserved_tokens) >= 1
    /\ \E r \in Reserved : Freq(r) > 0
    /\ \E t \in Range(Corpus) \ (Reserved \cup {UNK}) : Assigned(t)

\* C4 as stated: of two corpus tokens that are not reserved and that both
\* got an index, the more frequent one has the smaller index, and of two
\* equally frequent ones the one that occurs first in the flattened input.
C4_FrequencyOrder_AsStated ==
    Built =>
        \A a, b \in Range(Corpus) \ Reserved :
            (Assigned(a) /\ Assigned(b)) =>
                /\ Freq(a) > Freq(b) => Index(a) < Index(b)
                /\ (Freq(a) = Freq(b) /\ FirstPos(a) < FirstPos(b))
                      => Index(a) < Index(b)

\* C4, amended: the same of two corpus tokens that are neither reserved
\* nor the unknown token '<unk>' (which keeps index 0 however often the
\* corpus holds it).
C4_FrequencyOrder ==
    Built =>
        \A a, b \in Range(Corpus) \ (Reserved \cup {UNK}) :
            (Assigned(a) /\ Assigned(b)) =>
                /\ Freq(a) > Freq(b) => Index(a) < Index(b)
                /\ (Freq(a) = Freq(b) /\ FirstPos(a) < FirstPos(b))
                      => Index(a) < Index(b)

\* C4, its case: two indexed corpus tokens of equal frequency, behind a
\* reserved token.
C4_Witness ==
    /\ Built
    /\ Len(reserved_tokens) >= 1
    /\ \E a, b \in Range(Corpus) \ (Reserved \cup {UNK}) :
         /\ a # b /\ Assigned(a) /\ Assigned(b)
         /\ Freq(a) = Freq(b) /\ FirstPos(a) < FirstPos(b)

\* C4, its other case: the more frequent token occurs later in the input
\* than the less frequent one, so that sorting moves it to the front.
C4_WitnessReordered ==
    /\ Built
    /\ \E a, b \in Range(Corpus) \ (Reserved \cup {UNK}) :
         /\ Assigned(a) /\ Assigned(b)
         /\ Freq(a) > Freq(b) /\ FirstPos(b) < FirstPos(a)

\* C5 as stated: a token whose frequency in the corpus is below min_freq
\* never receives an index, and its forward lookup returns 0.
C5_BelowMinFreq_AsStated ==
    Built =>
        \A t \in QueryTokens :
            Freq(t) < min_freq => (~Assigned(t) /\ GetItem(vocab, t) = Returns(0))

\* C5, amended: a token that is neither the unknown token nor one of
\* reserved_tokens and whose frequency in the corpus is below min_freq
\* never receives an index, and its forward lookup returns 0.
C5_BelowMinFreq ==
    Built =>
        \A t \in QueryTokens \ (Reserved \cup {UNK}) :
            Freq(t) < min_freq => (~Assigned(t) /\ GetItem(vocab, t) = Returns(0))

\* C5, its case: a token occurs in the corpus, less often than min_freq,
\* while another token reaches min_freq and is indexed.
C5_Witness ==
    /\ Built
    /\ \E t \in Range(Corpus) \ (Reserved \cup {UNK}) : Freq(t) < min_freq
    /\ \E u \in Range(Corpus) \ (Reserved \cup {UNK}) : Assigned(u)

C6_WitnessList ==
    /\ pc = "called"
    /\ ret.op = "getitems"
    /\ \E k \in 1..Len(ret.arg) : ~Assigned(ret.arg[k])

\* C7: to_tokens fails with an out-of-range error for every index outside
\* [0, len(vocab)), negative ones included, be it the single index asked
\* or one index of the list asked.
C7_ReverseLookupOutOfRange ==
    /\ (pc = "called" /\ ret.op = "to_token"
            /\ (ret.arg < 0 \/ ret.arg >= Size)) =>
          (~ret.ok /\ ret.err = "IndexError")
    /\ (pc = "called" /\ ret.op = "to_tokens"
            /\ \E k \in 1..Len(ret.arg) : ret.arg[k] < 0 \/ ret.arg[k] >= Size) =>
          (~ret.ok /\ ret.err = "IndexError")

\* C8: to_tokens(vocab[t]) is t when t got an index, and '<unk>' when it
\* got none.
C8_RoundTrip ==
    (pc = "called" /\ ret.op = "getitem") =>
        /\ ret.ok
        /\ ToToken(vocab, ret.val) =
               Returns(IF Assigned(ret.arg) THEN ret.arg ELSE UNK)

\* C8, its case: the token looked up stands at two indices (the reserved
\* list repeats it), the lookup gave the later one.
C8_Witness ==
    /\ pc = "called"
    /\ ret.op = "getitem"
    /\ ret.arg # UNK
    /\ Cardinality(Places(ret.arg)) = 2
    /\ ret.val = 2

\* C8, its other case: the token looked up got no index.
C8_WitnessUnknown ==
    /\ pc = "called"
    /\ ret.op = "getitem"
    /\ ~Assigned(ret.arg)

\* C9: len(vocab) = 1 + the number of reserved tokens left once the
\* unknown token is struck from them + the number of distinct corpus
\* tokens of frequency >= min_freq that are not in the reserved list.
C9_Size ==
    (pc = "called" /\ ret.op = "len") =>
        ret.val =
            1 + Len(SelectSeq(reserved_tokens, LAMBDA r : r # UNK))
              + Cardinality({t \in Range(Corpus) \ Reserved : Freq(t) >= min_freq})

\* C10: with the same tokens and reserved_tokens, a larger min_freq never
\* gives a larger vocabulary.
C10_MinFreqMonotone ==
    (pc = "called" /\ vocab2.built) =>
        /\ min_freq <= vocab2.min_freq => VocabLen(vocab2.vocab) <= Size
        /\ vocab2.min_freq <= min_freq => Size <= VocabLen(vocab2.vocab)

\* C10, its case: the second vocabulary was built with a larger min_freq
\* and came out smaller.
C10_Witness ==
    /\ pc = "called"
    /\ vocab2.built
    /\ min_freq < vocab2.min_freq
    /\ VocabLen(vocab2.vocab) < Size

\* ================================================== the text pipeline
\* A str is the sequence of its characters, each a string of length one.

\* Characters of the file: a lower-case and an upper-case letter, a
\* character that is neither letter nor whitespace, a blank and a newline.
RawChars == {"a", "B", "-", " ", "\n"}

\* [A-Za-z] of the regular expression
IsAlpha(c) == c \in {"a", "b", "A", "B"}

\* what str.strip and str.split take for whitespace
IsSpace(c) == c \in {" ", "\n"}

\* f.readlines(): the text cut behind every newline, the newline kept; what
\* follows the last newline is a line of its own unless it is empty.
RECURSIVE ReadLines(_)
ReadLines(t) ==
    IF t = <<>> THEN <<>>
    ELSE IF \E i \in DOMAIN t : t[i] = "\n"
    THEN LET n == CHOOSE i \in DOMAIN t :
                      t[i] = "\n" /\ \A j \in 1..(i - 1) : t[j] # "\n"
         IN <<SubSeq(t, 1, n)>> \o ReadLines(SubSeq(t, n + 1, Len(t)))
    ELSE <<t>>

\* re.sub('[^A-Za-z]+', ' ', line): every maximal run of characters that
\* are no letters becomes one blank.
\* re.sub without the "+": every character that is no letter becomes a
\* blank of its own.
ReSubEachChar(line) ==
    [i \in DOMAIN line |-> IF IsAlpha(line[i]) THEN line[i] ELSE " "]

RECURSIVE ReSubNonAlpha(_)
ReSubNonAlpha(line) ==
    IF line = <<>> THEN <<>>
    ELSE LET n == Len(line)
             init == ReSubNonAlpha(SubSeq(line, 1, n - 1))
         IN IF IsAlpha(line[n]) THEN Append(init, line[n])
            ELSE IF n > 1 /\ ~IsAlpha(line[n - 1]) THEN init
            ELSE Append(init, " ")

\* str.strip(): leading and trailing whitespace removed
RECURSIVE Strip(_)
Strip(str) ==
    IF str = <<>> THEN <<>>
    ELSE IF IsSpace(str[1]) THEN Strip(Tail(str))
    ELSE IF IsSpace(str[Len(str)]) THEN Strip(SubSeq(str, 1, Len(str) - 1))
    ELSE str

\* str.lower()
LowerChar(c) == CASE c = "A" -> "a" [] c = "B" -> "b" [] OTHER -> c
\* the chain without .lower()
NoLower(str) == str

Lower(str) == [i \in DOMAIN str |-> LowerChar(str[i])]

\* return [re.sub('[^A-Za-z]+', ' ', line).strip().lower() for line in lines]
read_time_machine(t) ==
    LET raw == ReadLines(t)
    IN [i \in DOMAIN raw |-> Lower(Strip(ReSubNonAlpha(raw[i])))]

\* str.split(): the maximal runs of characters that are no whitespace
RECURSIVE Split(_)
Split(str) ==
    IF str = <<>> THEN <<>>
    ELSE LET n == Len(str)
             init == Split(SubSeq(str, 1, n - 1))
         IN IF IsSpace(str[n]) THEN init
            ELSE IF n > 1 /\ ~IsSpace(str[n - 1])
            THEN [init EXCEPT ![Len(init)] = Append(@, str[n])]
            ELSE Append(init, <<str[n]>>)

\* ' '.join(words)
RECURSIVE Join(_)
Join(words) ==
    IF words = <<>> THEN <<>>
    ELSE IF Len(words) = 1 THEN words[1]
    ELSE words[1] \o <<" ">> \o Join(Tail(words))

\* The value of a function that ends without a return statement.
None == "None"

\* The token types the callers pass: the two tokenize knows and one it
\* does not.
TokenTypes == {"word", "char", "sentence"}

\* tokenize(lines, token): for 'word' the words of every line, for 'char'
\* its characters; for anything else it prints a message and runs off its
\* end, which returns None.
tokenize(lines_, token) ==
    IF token = "word"
    THEN Returns([i \in DOMAIN lines_ |-> Split(lines_[i])])
    ELSE IF token = "char"
    THEN Returns([i \in DOMAIN lines_ |-> lines_[i]])
    ELSE Returns(None)

\* load_corpus_time_machine(max_tokens), from the lines on:
\*     tokens = tokenize(lines, 'char')
\*     vocab = Vocab(tokens)
\*     corpus = [vocab[token] for line in tokens for token in line]
\*     if max_tokens > 0: corpus = corpus[:max_tokens]
\* corpus[:k] of a positive k is the first min(k, len(corpus)) elements.
\* EncodeCorpus with the test "max_tokens >= 0": 0 cuts the corpus to nothing.
EncodeCorpusZeroCuts(token_lines, self, max_tokens) ==
    LET flat == Flatten(token_lines)
        corpus == [i \in DOMAIN flat |-> GetItem(self, flat[i]).val]
    IN IF max_tokens >= 0
       THEN SubSeq(corpus, 1, IF max_tokens < Len(corpus)
                              THEN max_tokens ELSE Len(corpus))
       ELSE corpus

EncodeCorpus(token_lines, self, max_tokens) ==
    LET flat == Flatten(token_lines)
        corpus == [i \in DOMAIN flat |-> GetItem(self, flat[i]).val]
    IN IF max_tokens > 0
       THEN SubSeq(corpus, 1, IF max_tokens < Len(corpus)
                              THEN max_tokens ELSE Len(corpus))
       ELSE corpus

\* The file holds any text of at most MaxText characters.
InitText ==
    /\ text \in SeqsUpTo(RawChars, MaxText)
    /\ lines = <<>>
    /\ tokens = <<>>
    /\ min_freq = 0
    /\ reserved_tokens = <<>>
    /\ pc = "new"
    /\ vocab = NoVocab
    /\ vocab2 = NoVocab2
    /\ ret = NoRet
    /\ X = NoTensor
    /\ num_heads = 1

\* lines = read_time_machine()
ReadTimeMachine ==
    /\ pc = "new"
    /\ lines' = read_time_machine(text)
    /\ ret' = [op |-> "read_time_machine", arg |-> <<>>, ok |-> TRUE,
               val |-> lines', err |-> ""]
    /\ pc' = "read"
    /\ UNCHANGED <<tokens, min_freq, reserved_tokens, vocab, vocab2, text,
                   X, num_heads>>

\* tokenize(lines, token)
Tokenize(token) ==
    /\ pc = "read"
    /\ LET r == tokenize(lines, token)
       IN ret' = [op |-> "tokenize", arg |-> token, ok |-> r.ok, val |-> r.val,
                  err |-> r.err]
    /\ pc' = "tokenized"
    /\ UNCHANGED <<tokens, min_freq, reserved_tokens, vocab, vocab2, text,
                   lines, X, num_heads>>

\* corpus, vocab = load_corpus_time_machine(max_tokens)
LoadCorpusTimeMachine(max_tokens) ==
    /\ pc = "new"
    /\ LET lines_ == read_time_machine(text)
           toks == tokenize(lines_, "char").val
           token_lines == [i \in DOMAIN toks |-> Line(toks[i])]
           self == VocabInit(token_lines, 0, <<>>)
       IN /\ lines' = lines_
          /\ tokens' = token_lines
          /\ vocab' = self
          /\ ret' = [op |-> "load_corpus_time_machine", arg |-> max_tokens,
                     ok |-> TRUE,
                     val |-> EncodeCorpus(token_lines, self, max_tokens),
                     err |-> ""]
    /\ pc' = "loaded"
    /\ UNCHANGED <<min_freq, reserved_tokens, vocab2, text, X, num_heads>>

NextText ==
    \/ ReadTimeMachine
    \/ \E token \in TokenTypes : Tokenize(token)
    \/ \E max_tokens \in -1..MaxText : LoadCorpusTimeMachine(max_tokens)

SpecText == InitText /\ [][NextText]_vars

\* ---------------------------------------- properties of the text pipeline
\* C11: tokenize with a token type other than 'word' and 'char' fails with
\* an error that reaches the caller; it returns nothing.
C11_UnknownTypeFails ==
    (pc = "tokenized" /\ ret.op = "tokenize" /\ ret.arg \notin {"word", "char"})
        => ~ret.ok

\* C12: 'word' tokenization gives one token list per line, in the order of
\* the lines; an empty line gives the empty list, and the tokens of any
\* other line joined by single blanks give the line back.
C12_WordRoundTrip ==
    (pc = "tokenized" /\ ret.op = "tokenize" /\ ret.arg = "word") =>
        /\ ret.ok
        /\ Len(ret.val) = Len(lines)
        /\ \A i \in DOMAIN lines :
             /\ lines[i] = <<>> => ret.val[i] = <<>>
             /\ lines[i] # <<>> => Join(ret.val[i]) = lines[i]

\* C12, its case: a line of several words and an empty line were
\* tokenized.
C12_Witness ==
    /\ pc = "tokenized" /\ ret.op = "tokenize" /\ ret.arg = "word"
    /\ \E i \in DOMAIN lines : Len(ret.val[i]) >= 2
    /\ \E i \in DOMAIN lines : lines[i] = <<>>

\* The full corpus: the forward lookup of every character of every line,
\* line after line.
RECURSIVE Concat(_)
Concat(ls) == IF ls = <<>> THEN <<>> ELSE Head(ls) \o Concat(Tail(ls))

FullCorpus ==
    LET chars == Concat(lines)
    IN [i \in DOMAIN chars |->
          IF chars[i] \in DOMAIN vocab.token_to_idx
          THEN vocab.token_to_idx[chars[i]] ELSE 0]

\* C13: load_corpus_time_machine returns the forward lookup of every token
\* of the text in document order as one flat list; for max_tokens > 0 its
\* first min(max_tokens, number of tokens) elements, otherwise all of it.
C13_CorpusPrefix ==
    (pc = "loaded" /\ ret.op = "load_corpus_time_machine") =>
        /\ ret.ok
        /\ ret.arg > 0 =>
             /\ Len(ret.val) = (IF ret.arg < Len(FullCorpus)
                                THEN ret.arg ELSE Len(FullCorpus))
             /\ \A i \in 1..Len(ret.val) : ret.val[i] = FullCorpus[i]
        /\ ret.arg <= 0 => ret.val = FullCorpus

\* C13, its case: a text of two non-empty lines was cut short.
C13_Witness ==
    /\ pc = "loaded" /\ ret.op = "load_corpus_time_machine"
    /\ Len(lines) >= 2 /\ lines[1] # <<>> /\ lines[2] # <<>>
    /\ ret.arg > 0 /\ ret.arg < Len(FullCorpus)

\* C13, its other case: max_tokens = 0 left the corpus whole.
C13_WitnessUnbounded ==
    /\ pc = "loaded" /\ ret.op = "load_corpus_time_machine"
    /\ ret.arg = 0 /\ Len(ret.val) >= 2

\* The number of lines of the file: one per newline, and one more for what
\* follows the last newline.
RawLineCount ==
    Cardinality({i \in DOMAIN text : text[i] = "\n"})
        + (IF text # <<>> /\ text[Len(text)] # "\n" THEN 1 ELSE 0)

\* The position of the k-th character of str that is (letters = TRUE) a
\* letter of the file, (letters = FALSE) no blank.
KthPos(str, k, letters) ==
    LET Hit(c) == IF letters THEN IsAlpha(c) ELSE c # " "
    IN CHOOSE p \in DOMAIN str :
         Hit(str[p]) /\ Cardinality({q \in 1..p : Hit(str[q])}) = k

\* line is raw normalized: it consists of lower-case letters and blanks,
\* neither begins nor ends with a blank nor holds two blanks in a row; its
\* letters are the letters of raw in lower case, and two neighbouring
\* letters are apart by a blank exactly if they are apart in raw.
Normalized(raw, line) ==
    LET n == Cardinality({p \in DOMAIN raw : IsAlpha(raw[p])})
    IN /\ \A p \in DOMAIN line : line[p] \in {"a", "b", " "}
       /\ line # <<>> => (line[1] # " " /\ line[Len(line)] # " ")
       /\ \A p \in 1..(Len(line) - 1) : ~(line[p] = " " /\ line[p + 1] = " ")
       /\ Cardinality({p \in DOMAIN line : line[p] # " "}) = n
       /\ \A k \in 1..n :
            line[KthPos(line, k, FALSE)] = LowerChar(raw[KthPos(raw, k, TRUE)])
       /\ \A k \in 1..(n - 1) :
            (KthPos(line, k + 1, FALSE) = KthPos(line, k, FALSE) + 1)
              <=> (KthPos(raw, k + 1, TRUE) = KthPos(raw, k, TRUE) + 1)

\* C14: read_time_machine returns one line per line of the file, in the
\* same order, an empty one for an empty line; each is the line of the file
\* with every maximal run of non-letters turned into one blank, trimmed and
\* put in lower case.
C14_NormalizedLines ==
    (pc \in {"read", "tokenized"}) =>
        /\ Len(lines) = RawLineCount
        /\ \A i \in DOMAIN lines : Normalized(ReadLines(text)[i], lines[i])

\* C14, its case: a line with an upper-case letter and a non-letter
\* between two letters, and a line without any letter.
C14_Witness ==
    /\ pc = "read"
    /\ \E i \in DOMAIN lines :
         /\ \E p \in DOMAIN ReadLines(text)[i] : ReadLines(text)[i][p] = "B"
         /\ \E p \in DOMAIN lines[i] : lines[i][p] = " "
    /\ \E i \in DOMAIN lines : lines[i] = <<>>

\* ------------------------------------------------------ calls in sequence
\* The caller is done with what a call returned (and with a second
\* vocabulary it built) and goes on to its next call.
NextCall ==
    /\ pc = "called"
    /\ pc' = "built"
    /\ ret' = NoRet
    /\ vocab2' = NoVocab2
    /\ UNCHANGED <<tokens, min_freq, reserved_tokens, vocab, others>>

NextCalls == Next \/ NextCall

\* A vocabulary is built and then called any number of times.
SpecCalls == Init /\ [][NextCalls]_vars

\* C15: once the Vocab is constructed, no call of len, vocab[...] or
\* to_tokens, failing or not, changes idx_to_token, token_to_idx or the
\* size of the vocabulary.
C15_CallsLeaveVocab ==
    [][(pc \in {"built", "called"}) =>
          (/\ vocab'.idx_to_token = vocab.idx_to_token
           /\ vocab'.token_to_idx = vocab.token_to_idx
           /\ VocabLen(vocab') = VocabLen(vocab))]_vars

\* C15, its case: a reverse lookup of an index out of range has failed.
C15_Witness ==
    /\ pc = "called"
    /\ ret.op = "to_tokens"
    /\ ~ret.ok

\* C15, its other case: a token without an index was looked up.
C15_WitnessUnknown ==
    /\ pc = "called"
    /\ ret.op = "getitem"
    /\ ~Assigned(ret.arg)

\* ============================================ transpose_qkv, transpose_output
\* A tensor is its shape and its elements in row-major order.  Indices
\* into shape and data are 1-based here, the element indices (multi-indices
\* and offsets) 0-based as in the source.

RECURSIVE Product(_)
Product(dims) == IF dims = <<>> THEN 1 ELSE Head(dims) * Product(Tail(dims))

\* The offset of the element at multi-index m in a tensor of that shape,
\* and the multi-index of the element at offset k.
Stride(shape, i) == Product(SubSeq(shape, i + 1, Len(shape)))
Ravel(m, shape) ==
    LET RECURSIVE Sum(_)
        Sum(i) == IF i = 0 THEN 0 ELSE m[i] * Stride(shape, i) + Sum(i - 1)
    IN Sum(Len(shape))
Unravel(k, shape) ==
    [i \in DOMAIN shape |-> (k \div Stride(shape, i)) % shape[i]]

\* T.reshape(*shape): the same elements in the same order under a new
\* shape; one dimension may be given as -1 and is then worked out from the
\* number of elements.  It fails when the numbers of elements differ.
Reshape(T, shape) ==
    LET known == Product([i \in DOMAIN shape |->
                             IF shape[i] = -1 THEN 1 ELSE shape[i]])
        size == Len(T.data)
        full == [i \in DOMAIN shape |->
                    IF shape[i] = -1 THEN size \div known ELSE shape[i]]
    IN IF known > 0 /\ Product(full) = size
       THEN Returns([shape |-> full, data |-> T.data])
       ELSE Raises("ValueError")

\* T.transpose(*axes): axis i of the result is axis axes[i] of T.  axes
\* is written 1-based: transpose(0, 2, 1, 3) is <<1, 3, 2, 4>>.
Transpose(T, axes) ==
    LET shape == [i \in DOMAIN axes |-> T.shape[axes[i]]]
        Source(k) ==
            LET m == Unravel(k, shape)
                old == [j \in DOMAIN axes |->
                           m[CHOOSE i \in DOMAIN axes : axes[i] = j]]
            IN Ravel(old, T.shape)
    IN [shape |-> shape,
        data |-> [k \in 1..Len(T.data) |-> T.data[Source(k - 1) + 1]]]

\* def transpose_qkv(X, num_heads):
\*     X = X.reshape(X.shape[0], X.shape[1], num_heads, -1)
\*     X = X.transpose(0, 2, 1, 3)
\*     return X.reshape(-1, X.shape[2], X.shape[3])
transpose_qkv(T, heads) ==
    LET r1 == Reshape(T, <<T.shape[1], T.shape[2], heads, -1>>)
    IN IF ~r1.ok THEN r1
       ELSE LET t2 == Transpose(r1.val, <<1, 3, 2, 4>>)
            IN Reshape(t2, <<-1, t2.shape[3], t2.shape[4]>>)

\* transpose_output without its transpose: the heads are merged as they lie.
transpose_output_untransposed(T, heads) ==
    LET r1 == Reshape(T, <<-1, heads, T.shape[2], T.shape[3]>>)
    IN IF ~r1.ok THEN r1
       ELSE Reshape(r1.val, <<r1.val.shape[1], r1.val.shape[3], -1>>)

\* def transpose_output(X, num_heads):
\*     X = X.reshape(-1, num_heads, X.shape[1], X.shape[2])
\*     X = X.transpose(0, 2, 1, 3)
\*     return X.reshape(X.shape[0], X.shape[1], -1)
transpose_output(T, heads) ==
    LET r1 == Reshape(T, <<-1, heads, T.shape[2], T.shape[3]>>)
    IN IF ~r1.ok THEN r1
       ELSE LET t2 == Transpose(r1.val, <<1, 3, 2, 4>>)
            IN Reshape(t2, <<t2.shape[1], t2.shape[2], -1>>)

\* The tensor of a shape whose elements are numbered in row-major order:
\* every element can be told from every other, so that the place each one
\* ends up at is visible.
Numbered(shape) == [shape |-> shape, data |-> [k \in 1..Product(shape) |-> k - 1]]

InitAttention ==
    /\ \E b \in 1..MaxBatch, n \in 1..MaxSteps, h \in 1..MaxHiddens :
         X = Numbered(<<b, n, h>>)
    /\ num_heads \in 1..MaxHiddens
    /\ pc = "new"
    /\ ret = NoRet
    /\ tokens = <<>>
    /\ min_freq = 0
    /\ reserved_tokens = <<>>
    /\ vocab = NoVocab
    /\ vocab2 = NoVocab2
    /\ text = <<>>
    /\ lines = <<>>

\* transpose_qkv(X, num_heads)
TransposeQkv ==
    /\ pc = "new"
    /\ LET r == transpose_qkv(X, num_heads)
       IN ret' = [op |-> "transpose_qkv", arg |-> X, ok |-> r.ok, val |-> r.val,
                  err |-> r.err]
    /\ pc' = "split"
    /\ UNCHANGED <<tokens, min_freq, reserved_tokens, vocab, vocab2, others>>

\* transpose_output(output, num_heads), output being what transpose_qkv
\* returned
TransposeOutput ==
    /\ pc = "split"
    /\ ret.ok
    /\ LET r == transpose_output(ret.val, num_heads)
       IN ret' = [op |-> "transpose_output", arg |-> ret.val, ok |-> r.ok,
                  val |-> r.val, err |-> r.err]
    /\ pc' = "merged"
    /\ UNCHANGED <<tokens, min_freq, reserved_tokens, vocab, vocab2, others>>

NextAttention == TransposeQkv \/ TransposeOutput

SpecAttention == InitAttention /\ [][NextAttention]_vars

\* C16: for X of shape (batch_size, n, num_hiddens) and num_heads dividing
\* num_hiddens, transpose_qkv(X, num_heads) has the shape
\* (batch_size * num_heads, n, num_hiddens / num_heads), and
\* transpose_output of it gives X back, element for element.
C16_TransposeRoundTrip ==
    /\ (pc = "split" /\ X.shape[3] % num_heads = 0) =>
          /\ ret.ok
          /\ ret.val.shape = <<X.shape[1] * num_heads, X.shape[2],
                               X.shape[3] \div num_heads>>
          /\ transpose_output(ret.val, num_heads).ok
    /\ pc = "merged" => (ret.ok /\ ret.val = X)

\* C16, its case: several heads, several positions and several hidden
\* units per head went through both functions.
C16_Witness ==
    /\ pc = "merged"
    /\ num_heads >= 2
    /\ X.shape[1] >= 2 /\ X.shape[2] >= 2
    /\ X.shape[3] \div num_heads >= 2

\* ------------------------------------------------- 2D against 1D token lists
\* The 1D list of the tokens of a 2D list, line after line.
FlatOf(toks) ==
    LET flat == Concat([i \in DOMAIN toks |-> toks[i].items])
    IN [i \in DOMAIN flat |-> Tok(flat[i])]

\* Vocab is handed a 2D list (or the empty list).
InitNested ==
    /\ tokens \in NestedInputs \cup {<<>>}
    /\ min_freq \in 0..MaxMinFreq
    /\ reserved_tokens \in SeqsUpTo(ReservedChoices, MaxReserved)
    /\ pc = "new"
    /\ vocab = NoVocab
    /\ vocab2 = NoVocab2
    /\ ret = NoRet
    /\ text = <<>>
    /\ lines = <<>>
    /\ X = NoTensor
    /\ num_heads = 1

\* Vocab(flat, min_freq, reserved_tokens), flat being the tokens of the
\* lines in one list
ConstructFlat ==
    /\ pc = "built"
    /\ vocab2' = [min_freq |-> min_freq,
                  vocab |-> VocabInit(FlatOf(tokens), min_freq, reserved_tokens),
                  built |-> TRUE]
    /\ pc' = "called"
    /\ UNCHANGED <<tokens, min_freq, reserved_tokens, vocab, ret, others>>

NextNested == Construct \/ ConstructFlat

SpecNested == InitNested /\ [][NextNested]_vars

\* C17: a Vocab built from a list of lines is the Vocab built from the flat
\* list of their tokens: the same idx_to_token, token_to_idx and
\* token_freqs; also when the first line is empty or there is no line.
C17_NestedAsFlat ==
    (pc = "called" /\ vocab2.built) =>
        /\ vocab2.vocab.idx_to_token = vocab.idx_to_token
        /\ vocab2.vocab.token_to_idx = vocab.token_to_idx
        /\ vocab2.vocab.token_freqs = vocab.token_freqs

\* C17, its case: the first line is empty, the second holds two different
\* tokens.
C17_Witness ==
    /\ pc = "called" /\ vocab2.built
    /\ Len(tokens) = 2
    /\ tokens[1].items = <<>>
    /\ Len(vocab.token_freqs) = 2

\* C17, its other case: the empty input.
C17_WitnessEmpty ==
    /\ pc = "called" /\ vocab2.built
    /\ tokens = <<>>

====
